---- MODULE Spec2Model ----
(***************************************************************************)
(* Rating pipeline of movie-engine-backend: the rating ingest operations   *)
(* of RatingService (createRating, updateRating, createOrUpdateRating,     *)
(* createAnonymousRating behind POST /movies/:id/rate), the Redis stream   *)
(* 'rating-events' with its consumer group, and RatingStreamConsumer       *)
(* (startStreamProcessor, processEvents, recalculateMovieStats).           *)
(*                                                                         *)
(* Every await of the source that reads or writes mutable shared state is  *)
(* one step.  An await on immutable data (movie lookup by id: movies are   *)
(* never deleted; the sourceId and movieId of a rating: never rewritten)   *)
(* is folded into the step that follows it.  A prisma.$transaction is one  *)
(* atomic step (the strongest isolation the store can give).               *)
(* Average ratings are integers in hundredths of a star (4.33 is 433).     *)
(***************************************************************************)
EXTENDS Integers, Sequences, FiniteSets, TLC

\* ---------------------------------------------------------------- bounds
MaxOps == 2
MaxFails == 1
MaxMovies == 3
MaxSyncs == 2
MaxParts == 2
MaxCalls == 1
\* page size of DataSyncService (100 in the source), scaled to the store
batchSize == 2

\* ------------------------------------------------------------- constants
Count == 10
MinStars == 1
MaxStars == 5
\* default limit of GET /movies/search and GET /movies/top
DefaultLimit == 10

Clients == {"p1", "p2"}
Consumers == {"c1", "c2"}
ExistingMovies == {1}
MovieIds == {1, 2}
Sources == {"a", "b"}
NoSource == "none"
Anonymous == "anonymous"
StarsInputs == {0, 1, 5, 6}
PipelineStars == {1, 5}
Submitters == {"p1"}
ValidStars == MinStars..MaxStars
NoStats == [averageRating |-> -1, totalRatings |-> -1, ratingDistribution |-> <<>>]

\* a field the document does not have, and the JSON null
Undefined == -1
Null == -2

VARIABLES ratings, movie, ver, stream, cache, doc, req, cons, nops, nfails,
          lastPass, lastPush, manual, reader

\* the rating pipeline: store, stream, cache, index fields, calls in flight
\* (manual: the manualRecalculation of each consumer instance; reader: the
\* getMovieRatingStats call)
pipeline == <<ratings, movie, ver, stream, cache, doc, req, cons, nops, nfails,
              lastPass, lastPush, manual, reader>>

\* bulk sync: the movie table as the sync reads it, the documents of the
\* 'movies' index, InitialSyncService (syncStatus and the performSync in
\* flight) and the performFullSync of DataSyncService in flight
VARIABLES movies, index, sync, full, nsyncs

bulk == <<movies, index, sync, full, nsyncs>>

\* search: the query text given to parseQuery and the criteria it returns,
\* the type filter and the query body compiled from them, and the page of
\* hits the gateway returned last
VARIABLES query, criteria, searchBody, hits

search == <<query, criteria, searchBody, hits>>

\* the HTTP surface of MoviesController: the request being served, and the
\* API_KEY of the environment
VARIABLES http, config

web == <<http, config>>

vars == <<pipeline, bulk, search, web>>

\* ------------------------------------------------------- pure functions
RatingIdsOf(rs, m) == {i \in 1..Len(rs) : rs[i].movieId = m}

RECURSIVE SumStars(_, _)
SumStars(rs, S) ==
  IF S = {} THEN 0
  ELSE LET i == CHOOSE x \in S : TRUE IN rs[i].stars + SumStars(rs, S \ {i})

\* Number(x.toFixed(2)) of sum/total, in hundredths (ties round up)
ToFixed2(sum, total) == (200 * sum + total) \div (2 * total)

\* prisma.rating.aggregate({where:{movieId}, _avg:{stars}, _count:{id}})
\* followed by the  ?? 0 / || 0  defaults and toFixed(2)
Aggregate(rs, m) ==
  LET S == RatingIdsOf(rs, m)
      total == Cardinality(S)
  IN [avgRating |-> IF total = 0 THEN 0 ELSE ToFixed2(SumStars(rs, S), total),
      ratingsCount |-> total]

\* ratings.reduce(dist[rating.stars]++, {1:0,...,5:0})
RatingDistribution(rs, m) ==
  [k \in ValidStars |-> Cardinality({i \in RatingIdsOf(rs, m) : rs[i].stars = k})]

\* prisma.rating.findFirst({where:{movieId, sourceId}}) found something
HasRated(m, s) == \E i \in 1..Len(ratings) : ratings[i].movieId = m /\ ratings[i].sourceId = s

\* n is the number of the call (1 for the first call made, 2 for the next)
IdleReq == [op |-> "none", pc |-> "idle", movieId |-> 0, stars |-> 0,
            sourceId |-> NoSource, ratingId |-> 0, res |-> "none", n |-> 0]

\* history of the recomputation passes of a movie: the rating version the
\* latest pass read, what it wrote, and how many passes in a row read that
\* version (counted up to 2)
NoPass == [ver |-> -1, avg |-> 0, cnt |-> 0, runs |-> 0]

PassRecord(prev, v, a, n) ==
  [ver |-> v, avg |-> a, cnt |-> n,
   runs |-> IF prev.ver = v /\ prev.runs >= 1 THEN 2 ELSE 1]

\* a manualRecalculation or getMovieRatingStats call: its position, its
\* movie, the stats it computed and the number of calls made so far
IdleCall == [pc |-> "idle", movieId |-> 0, stats |-> NoStats, calls |-> 0]

IdleCons == [pc |-> "poll", batch |-> <<>>, avg |-> 0, total |-> 0, ver |-> 0,
             dist |-> <<>>, ok |-> {}]

\* InitialSyncService.syncStatus as constructed, with the position and the
\* locals of the performSync in flight
IdleSync == [isRunning |-> FALSE, progress |-> 0, totalRecords |-> 0,
             processedRecords |-> 0, currentOperation |-> "idle",
             errors |-> <<>>, pc |-> "idle", skip |-> 0, batchSize |-> 0,
             page |-> {}]

\* the performFullSync in flight
IdleFull == [pc |-> "idle", offset |-> 0, totalSynced |-> 0, page |-> {},
             res |-> "none"]

InitPipeline ==
  /\ ratings = <<>>
  /\ movie = [m \in ExistingMovies |-> [avgRating |-> 0, ratingsCount |-> 0]]
  /\ ver = [m \in ExistingMovies |-> 0]
  /\ stream = <<>>
  /\ cache = [m \in ExistingMovies |-> NoStats]
  /\ doc = [m \in ExistingMovies |-> [averageRating |-> 0, ratingCount |-> 0]]
  /\ req = [p \in Clients |-> IdleReq]
  /\ cons = [c \in Consumers |-> IdleCons]
  /\ nops = 0
  /\ nfails = 0
  /\ lastPass = [m \in ExistingMovies |-> NoPass]
  /\ lastPush = [m \in ExistingMovies |-> NoPass]
  /\ manual = [c \in Consumers |-> IdleCall]
  /\ reader = IdleCall

\* nothing parsed, compiled or searched
NoType == "any"
NoCriteria == [minRating |-> Undefined, maxRating |-> Undefined,
               afterYear |-> Undefined, beforeYear |-> Undefined,
               olderThanYears |-> Undefined, newerThanYears |-> Undefined,
               textQuery |-> <<>>]
NoBody == [must |-> <<>>, must_not |-> <<>>, should |-> <<>>, sort |-> <<>>]
NoHits == [type |-> NoType, movies |-> <<>>, total |-> 0]

\* no header, no API_KEY, no query parameter
NoKey == ""
Absent == "absent"
IdleHttp == [pc |-> "idle", route |-> "", apiKey |-> NoKey, limit |-> Absent,
             page |-> Absent, type |-> NoType, status |-> 0, gateway |-> FALSE]

Init ==
  /\ InitPipeline
  /\ sync = IdleSync
  /\ full = IdleFull
  /\ nsyncs = 0
  /\ http = IdleHttp
  /\ config = NoKey
  /\ query = <<>>
  /\ criteria = NoCriteria
  /\ searchBody = NoBody
  /\ hits = NoHits
  /\ movies = <<>>
  /\ index = <<>>

\* ------------------------------------------------------------ rating ingest
NewReq(op, pc, m, st, s, rid, res) ==
  [op |-> op, pc |-> pc, movieId |-> m, stars |-> st, sourceId |-> s,
   ratingId |-> rid, res |-> res, n |-> nops + 1]

\* the exception of a failed store call, not caught by the service
TxError == "Internal server error"

\* a call that has returned: only the operation and its outcome remain
Returned(r, res) == [IdleReq EXCEPT !.op = r.op, !.n = r.n, !.res = res]

\* mutant of CreateRatingCheck: the guard of the duplicate check inverted
CreateRatingCheck_Inverted(m, s) ==
  IF m \notin ExistingMovies THEN "Movie not found"
  ELSE IF s = NoSource /\ HasRated(m, s) THEN "You have already rated this movie"
  ELSE "pass"

\* createRating up to the transaction: movie lookup, then the duplicate check
\* for a call that carries a sourceId.  Yields the rejection or "pass".
CreateRatingCheck(m, s) ==
  IF m \notin ExistingMovies THEN "Movie not found"
  ELSE IF s # NoSource /\ HasRated(m, s) THEN "You have already rated this movie"
  ELSE "pass"

\* POST /ratings: the global ValidationPipe checks CreateRatingDto
\* (@IsInt @Min(1) @Max(5) stars) before RatingService.createRating runs.
PostRating(p, m, st, s) ==
  /\ req[p].pc = "idle"
  /\ nops < MaxOps
  /\ nops' = nops + 1
  /\ LET out == IF st \notin ValidStars THEN "stars must not be greater than 5 or less than 1" ELSE CreateRatingCheck(m, s)
     IN req' = [req EXCEPT ![p] =
                  IF out = "pass" THEN NewReq("createRating", "cr_tx", m, st, s, 0, "none")
                  ELSE NewReq("createRating", "idle", m, st, s, 0, out)]
  /\ UNCHANGED <<bulk, search, web, ratings, movie, ver, stream, cache, doc, cons, nfails, lastPass, lastPush, manual, reader>>

\* createRating entered from createOrUpdateRating: the same checks, one await
\* after the caller's own lookup
CreateRating(p) ==
  /\ req[p].pc = "cr_check"
  /\ LET out == CreateRatingCheck(req[p].movieId, req[p].sourceId)
     IN req' = [req EXCEPT ![p].pc = IF out = "pass" THEN "cr_tx" ELSE "idle",
                           ![p].res = IF out = "pass" THEN "none" ELSE out]
  /\ UNCHANGED <<bulk, search, web, ratings, movie, ver, stream, cache, doc, cons, nops, nfails, lastPass, lastPush, manual, reader>>

\* updateMovieAggregates(tx, movieId) applied to the ratings rs
updateMovieAggregates(rs, m) == [movie EXCEPT ![m] = Aggregate(rs, m)]

\* the $transaction of createRating: rating.create + updateMovieAggregates
CreateRatingTx(p) ==
  /\ req[p].pc = "cr_tx"
  /\ LET m == req[p].movieId
         rs == Append(ratings, [movieId |-> m, stars |-> req[p].stars,
                                sourceId |-> req[p].sourceId])
     IN /\ ratings' = rs
        /\ movie' = updateMovieAggregates(rs, m)
        /\ ver' = [ver EXCEPT ![m] = @ + 1]
  /\ req' = [req EXCEPT ![p].pc = "publish", ![p].ratingId = Len(ratings) + 1]
  /\ UNCHANGED <<bulk, search, web, stream, cache, doc, cons, nops, nfails, lastPass, lastPush, manual, reader>>

\* mutant of CreateRatingTxFail: the event is published from a finally block
CreateRatingTxFail_Publishes(p) ==
  /\ req[p].pc = "cr_tx"
  /\ nfails < MaxFails
  /\ nfails' = nfails + 1
  /\ req' = [req EXCEPT ![p].pc = "publish"]
  /\ UNCHANGED <<bulk, search, web, ratings, movie, ver, stream, cache, doc, cons, nops, lastPass, lastPush, manual, reader>>

\* the $transaction of createRating throws (rating.create or movie.update
\* fails): the store rolls both back, createRating has no catch, the
\* exception leaves the service before publishRatingEvent
CreateRatingTxFail(p) ==
  /\ req[p].pc = "cr_tx"
  /\ nfails < MaxFails
  /\ nfails' = nfails + 1
  /\ req' = [req EXCEPT ![p].pc = "idle", ![p].res = TxError]
  /\ UNCHANGED <<bulk, search, web, ratings, movie, ver, stream, cache, doc, cons, nops, lastPass, lastPush, manual, reader>>

\* updateRating up to the transaction: lookup by id, then the ownership check
UpdateRatingCheck(rid, s) ==
  IF rid \notin 1..Len(ratings) THEN "Rating not found"
  ELSE IF s # NoSource /\ ratings[rid].sourceId # s THEN "Not authorized to update this rating"
  ELSE "pass"

\* PUT /ratings/:id with body {stars, sourceId?}: the body is an inline type,
\* so the ValidationPipe has no rule to apply to it.
PutRating(p, rid, st, s) ==
  /\ req[p].pc = "idle"
  /\ nops < MaxOps
  /\ nops' = nops + 1
  /\ LET out == UpdateRatingCheck(rid, s)
     IN req' = [req EXCEPT ![p] =
                  IF out = "pass"
                  THEN NewReq("updateRating", "up_tx", ratings[rid].movieId, st, s, rid, "none")
                  ELSE NewReq("updateRating", "idle", 0, st, s, rid, out)]
  /\ UNCHANGED <<bulk, search, web, ratings, movie, ver, stream, cache, doc, cons, nfails, lastPass, lastPush, manual, reader>>

\* the $transaction of updateRating: rating.update + updateMovieAggregates
UpdateRatingTx(p) ==
  /\ req[p].pc = "up_tx"
  /\ LET m == req[p].movieId
         rs == [ratings EXCEPT ![req[p].ratingId].stars = req[p].stars]
     IN /\ ratings' = rs
        /\ movie' = updateMovieAggregates(rs, m)
        /\ ver' = [ver EXCEPT ![m] = @ + 1]
  /\ req' = [req EXCEPT ![p].pc = "publish"]
  /\ UNCHANGED <<bulk, search, web, stream, cache, doc, cons, nops, nfails, lastPass, lastPush, manual, reader>>

\* redis.xadd('rating-events', '*', 'data', JSON.stringify(event))
XAdd(m) == Append(stream, [movieId |-> m, st |-> "new", indexed |-> FALSE])

\* publishRatingEvent, the xadd succeeds; the caller then returns the rating
PublishRatingEvent(p) ==
  /\ req[p].pc = "publish"
  /\ stream' = XAdd(req[p].movieId)
  /\ req' = [req EXCEPT ![p] = Returned(req[p], "ok")]
  /\ UNCHANGED <<bulk, search, web, ratings, movie, ver, cache, doc, cons, nops, nfails, lastPass, lastPush, manual, reader>>

\* mutant of PublishRatingEventFail: the xadd error is rethrown to the caller
PublishRatingEventFail_Throws(p) ==
  /\ req[p].pc = "publish"
  /\ nfails < MaxFails
  /\ nfails' = nfails + 1
  /\ req' = [req EXCEPT ![p] = Returned(req[p], TxError)]
  /\ UNCHANGED <<bulk, search, web, ratings, movie, ver, stream, cache, doc, cons, nops, lastPass, lastPush, manual, reader>>

\* publishRatingEvent, the xadd throws: logged, not rethrown
PublishRatingEventFail(p) ==
  /\ req[p].pc = "publish"
  /\ nfails < MaxFails
  /\ nfails' = nfails + 1
  /\ req' = [req EXCEPT ![p] = Returned(req[p], "ok")]
  /\ UNCHANGED <<bulk, search, web, ratings, movie, ver, stream, cache, doc, cons, nops, lastPass, lastPush, manual, reader>>

\* createOrUpdateRating(dto) with a DTO that passed validation.
\* Without sourceId it is createRating; with one, getUserRatingForMovie
\* decides between updateRating(existing.id) and createRating.
CreateOrUpdateRating(p, m, st, s) ==
  /\ req[p].pc = "idle"
  /\ nops < MaxOps
  /\ nops' = nops + 1
  /\ st \in ValidStars
  /\ IF s = NoSource
     THEN LET out == CreateRatingCheck(m, s)
          IN req' = [req EXCEPT ![p] =
                       IF out = "pass" THEN NewReq("createOrUpdateRating", "cr_tx", m, st, s, 0, "none")
                       ELSE NewReq("createOrUpdateRating", "idle", m, st, s, 0, out)]
     ELSE IF HasRated(m, s)
          THEN \E rid \in 1..Len(ratings) :
                 /\ ratings[rid].movieId = m
                 /\ ratings[rid].sourceId = s
                 /\ req' = [req EXCEPT ![p] = NewReq("createOrUpdateRating", "up_tx", m, st, s, rid, "none")]
          ELSE req' = [req EXCEPT ![p] = NewReq("createOrUpdateRating", "cr_check", m, st, s, 0, "none")]
  /\ UNCHANGED <<bulk, search, web, ratings, movie, ver, stream, cache, doc, cons, nfails, lastPass, lastPush, manual, reader>>

\* MoviesController.rateMovie: falsy or out-of-range stars are a 400
RateMovieValid(st) == ~(st = 0 \/ st < MinStars \/ st > MaxStars)

\* mutant of CreateAnonymousRatingCheck: off by one at the lower bound
CreateAnonymousRatingCheck_OffByOne(m, st) ==
  IF st <= MinStars \/ st > MaxStars THEN "Rating must be between 1 and 5 stars"
  ELSE IF m \notin ExistingMovies THEN "Movie not found"
  ELSE "pass"

\* createAnonymousRating up to the insert: range check, then movie lookup
CreateAnonymousRatingCheck(m, st) ==
  IF st < MinStars \/ st > MaxStars THEN "Rating must be between 1 and 5 stars"
  ELSE IF m \notin ExistingMovies THEN "Movie not found"
  ELSE "pass"

\* POST /movies/:id/rate -> createAnonymousRating: the checks, then
\* rating.create with sourceId 'anonymous'.  cacheService.invalidateCache
\* deletes key movie:rating:<id>, which nothing modelled here writes.
RateMovie(p, m, st) ==
  /\ req[p].pc = "idle"
  /\ nops < MaxOps
  /\ nops' = nops + 1
  /\ LET out == IF ~RateMovieValid(st) THEN "Stars must be between 1 and 5"
                ELSE CreateAnonymousRatingCheck(m, st)
     IN IF out = "pass"
        THEN /\ ratings' = Append(ratings, [movieId |-> m, stars |-> st, sourceId |-> Anonymous])
             /\ ver' = [ver EXCEPT ![m] = @ + 1]
             /\ req' = [req EXCEPT ![p] = NewReq("rateMovie", "emit", m, st, NoSource, Len(ratings) + 1, "none")]
        ELSE /\ req' = [req EXCEPT ![p] = NewReq("rateMovie", "idle", m, st, NoSource, 0, out)]
             /\ UNCHANGED <<bulk, search, web, ratings, ver, manual, reader>>
  /\ UNCHANGED <<bulk, search, web, movie, stream, cache, doc, cons, nfails, lastPass, lastPush, manual, reader>>

\* the message of the BadRequestException rateMovie throws from its catch
RatingFailed == "Rating failed: Failed to create rating"

\* POST /movies/:id/rate, rating.create throws: the catch of
\* createAnonymousRating wraps the error in a BadRequestException, the catch
\* of rateMovie wraps that in another; nothing is inserted or emitted
RateMovieFail(p, m, st) ==
  /\ req[p].pc = "idle"
  /\ nops < MaxOps
  /\ nfails < MaxFails
  /\ RateMovieValid(st)
  /\ CreateAnonymousRatingCheck(m, st) = "pass"
  /\ nops' = nops + 1
  /\ nfails' = nfails + 1
  /\ req' = [req EXCEPT ![p] = NewReq("rateMovie", "idle", m, st, NoSource, 0, RatingFailed)]
  /\ UNCHANGED <<bulk, search, web, ratings, movie, ver, stream, cache, doc, cons, lastPass, lastPush, manual, reader>>

\* the HTTP status of a returned call: 201 for a result, 400 for a
\* BadRequestException, 500 for any other exception
Status(res) == IF res = "ok" THEN 201 ELSE IF res = TxError THEN 500 ELSE 400

\* emitRatingEvent, the xadd succeeds
EmitRatingEvent(p) ==
  /\ req[p].pc = "emit"
  /\ stream' = XAdd(req[p].movieId)
  /\ req' = [req EXCEPT ![p] = Returned(req[p], "ok")]
  /\ UNCHANGED <<bulk, search, web, ratings, movie, ver, cache, doc, cons, nops, nfails, lastPass, lastPush, manual, reader>>

\* emitRatingEvent, the xadd throws: logged, not rethrown
EmitRatingEventFail(p) ==
  /\ req[p].pc = "emit"
  /\ nfails < MaxFails
  /\ nfails' = nfails + 1
  /\ req' = [req EXCEPT ![p] = Returned(req[p], "ok")]
  /\ UNCHANGED <<bulk, search, web, ratings, movie, ver, stream, cache, doc, cons, nops, lastPass, lastPush, manual, reader>>

\* ---------------------------------------------------- rating stream consumer
Min(a, b) == IF a < b THEN a ELSE b

\* ids of the stream entries never delivered to the group, oldest first
NewIds == SelectSeq([i \in 1..Len(stream) |-> i], LAMBDA i : stream[i].st = "new")

\* movie of the message a consumer is working on
CurMovie(c) == stream[Head(cons[c].batch)].movieId

\* processEvents moves on to the next message of the batch, or returns to
\* startStreamProcessor, which clears isProcessing and polls again
NextMessage(c) ==
  [IdleCons EXCEPT !.batch = Tail(cons[c].batch),
                   !.pc = IF Tail(cons[c].batch) = <<>> THEN "poll" ELSE "del"]

\* startStreamProcessor: XREADGROUP GROUP g c COUNT 10 BLOCK 5000 STREAMS k '>'
\* returns entries; they enter the group's pending list.  (An empty read
\* changes nothing and is a stuttering step.)
StartStreamProcessor(c) ==
  /\ cons[c].pc = "poll"
  /\ NewIds # <<>>
  /\ LET got == SubSeq(NewIds, 1, Min(Count, Len(NewIds)))
     IN /\ stream' = [i \in 1..Len(stream) |->
                        IF \E k \in 1..Len(got) : got[k] = i
                        THEN [stream[i] EXCEPT !.st = "pending"] ELSE stream[i]]
        /\ cons' = [cons EXCEPT ![c] = [IdleCons EXCEPT !.batch = got, !.pc = "del"]]
  /\ UNCHANGED <<bulk, search, web, ratings, movie, ver, cache, doc, req, nops, nfails, lastPass, lastPush, manual, reader>>

\* recalculateMovieStats: redis.del(`movie:${movieId}:stats`)
RecalcDel(c) ==
  /\ cons[c].pc = "del"
  /\ CurMovie(c) # 0
  /\ cache' = [cache EXCEPT ![CurMovie(c)] = NoStats]
  /\ cons' = [cons EXCEPT ![c].pc = "agg", ![c].ok = {"del"}]
  /\ UNCHANGED <<bulk, search, web, ratings, movie, ver, stream, doc, req, nops, nfails, lastPass, lastPush, manual, reader>>

\* mutant of RecalcAggregate: the count is kept incrementally (stored + 1)
RecalcAggregate_Incremental(c) ==
  /\ cons[c].pc = "agg"
  /\ LET a == Aggregate(ratings, CurMovie(c))
     IN cons' = [cons EXCEPT ![c].avg = a.avgRating,
                             ![c].total = movie[CurMovie(c)].ratingsCount + 1,
                             ![c].ver = ver[CurMovie(c)],
                             ![c].ok = @ \cup {"agg"},
                             ![c].pc = "find"]
  /\ UNCHANGED <<bulk, search, web, ratings, movie, ver, stream, cache, doc, req, nops, nfails, lastPass, lastPush, manual, reader>>

\* recalculateMovieStats: prisma.rating.aggregate, totalRatings, averageRating
RecalcAggregate(c) ==
  /\ cons[c].pc = "agg"
  /\ LET a == Aggregate(ratings, CurMovie(c))
     IN cons' = [cons EXCEPT ![c].avg = a.avgRating,
                             ![c].total = a.ratingsCount,
                             ![c].ver = ver[CurMovie(c)],
                             ![c].ok = @ \cup {"agg"},
                             ![c].pc = IF a.ratingsCount = 0 THEN "write" ELSE "find"]
  /\ UNCHANGED <<bulk, search, web, ratings, movie, ver, stream, cache, doc, req, nops, nfails, lastPass, lastPush, manual, reader>>

\* recalculateMovieStats: prisma.rating.findMany + the distribution reduce
RecalcFindMany(c) ==
  /\ cons[c].pc = "find"
  /\ cons' = [cons EXCEPT ![c].dist = RatingDistribution(ratings, CurMovie(c)),
                          ![c].pc = "setex"]
  /\ UNCHANGED <<bulk, search, web, ratings, movie, ver, stream, cache, doc, req, nops, nfails, lastPass, lastPush, manual, reader>>

\* recalculateMovieStats: redis.setex(`movie:${movieId}:stats`, 300, stats)
RecalcSetex(c) ==
  /\ cons[c].pc = "setex"
  /\ cache' = [cache EXCEPT ![CurMovie(c)] =
                 [averageRating |-> cons[c].avg, totalRatings |-> cons[c].total,
                  ratingDistribution |-> cons[c].dist]]
  /\ cons' = [cons EXCEPT ![c].pc = "write", ![c].ok = @ \cup {"cache"}]
  /\ UNCHANGED <<bulk, search, web, ratings, movie, ver, stream, doc, req, nops, nfails, lastPass, lastPush, manual, reader>>

\* updateMovieRecord(movieId, avgRating, ratingsCount): prisma.movie.update
updateMovieRecord(c) ==
  /\ cons[c].pc = "write"
  /\ movie' = [movie EXCEPT ![CurMovie(c)] =
                 [avgRating |-> cons[c].avg, ratingsCount |-> cons[c].total]]
  /\ cons' = [cons EXCEPT ![c].pc = "search", ![c].ok = @ \cup {"write"}]
  /\ lastPass' = [lastPass EXCEPT ![CurMovie(c)] =
                    PassRecord(@, cons[c].ver, cons[c].avg, cons[c].total)]
  /\ UNCHANGED <<bulk, search, web, ratings, ver, stream, cache, doc, req, nops, nfails, lastPush, manual, reader>>

\* mutant of updateMovieRating: the two fields of the partial document swapped
updateMovieRating_Swapped(c) ==
  /\ cons[c].pc = "search"
  /\ doc' = [doc EXCEPT ![CurMovie(c)] =
               [averageRating |-> cons[c].total, ratingCount |-> cons[c].avg]]
  /\ cons' = [cons EXCEPT ![c].pc = "ack", ![c].ok = @ \cup {"search"}]
  /\ lastPush' = [lastPush EXCEPT ![CurMovie(c)] =
                    PassRecord(@, cons[c].ver, cons[c].avg, cons[c].total)]
  /\ UNCHANGED <<bulk, search, web, ratings, movie, ver, stream, cache, req, nops, nfails, lastPass, manual, reader>>

\* OpenSearchEngineService.updateMovieRating, the partial update succeeds
updateMovieRating(c) ==
  /\ cons[c].pc = "search"
  /\ doc' = [doc EXCEPT ![CurMovie(c)] =
               [averageRating |-> cons[c].avg, ratingCount |-> cons[c].total]]
  /\ cons' = [cons EXCEPT ![c].pc = "ack", ![c].ok = @ \cup {"search"}]
  /\ lastPush' = [lastPush EXCEPT ![CurMovie(c)] =
                    PassRecord(@, cons[c].ver, cons[c].avg, cons[c].total)]
  /\ UNCHANGED <<bulk, search, web, ratings, movie, ver, stream, cache, req, nops, nfails, lastPass, manual, reader>>

\* mutant of updateMovieRatingFail: the catch rethrows, the pass is aborted
updateMovieRatingFail_Throws(c) ==
  /\ cons[c].pc = "search"
  /\ nfails < MaxFails
  /\ nfails' = nfails + 1
  /\ cons' = [cons EXCEPT ![c] = NextMessage(c)]
  /\ UNCHANGED <<bulk, search, web, ratings, movie, ver, stream, cache, doc, req, nops, lastPass, lastPush, manual, reader>>

\* OpenSearchEngineService.updateMovieRating, client.update throws: the
\* catch logs and returns normally
updateMovieRatingFail(c) ==
  /\ cons[c].pc = "search"
  /\ nfails < MaxFails
  /\ nfails' = nfails + 1
  /\ cons' = [cons EXCEPT ![c].pc = "ack"]
  /\ UNCHANGED <<bulk, search, web, ratings, movie, ver, stream, cache, doc, req, nops, lastPass, lastPush, manual, reader>>

\* an entry without a data field is added to the stream (movieId 0: none)
XAddInvalid ==
  /\ Cardinality({i \in DOMAIN stream : stream[i].movieId = 0}) < MaxCalls
  /\ stream' = XAdd(0)
  /\ UNCHANGED <<bulk, search, web, ratings, movie, ver, cache, doc, req, cons, nops,
                 nfails, lastPass, lastPush, manual, reader>>

\* processEvents on a message without a data field: xack, then continue
XAckInvalid(c) ==
  /\ cons[c].pc = "del"
  /\ CurMovie(c) = 0
  /\ stream' = [stream EXCEPT ![Head(cons[c].batch)].st = "acked"]
  /\ cons' = [cons EXCEPT ![c] = NextMessage(c)]
  /\ UNCHANGED <<bulk, search, web, ratings, movie, ver, cache, doc, req, nops,
                 nfails, lastPass, lastPush, manual, reader>>

\* mutant of RecalcFail: the try / catch is around the loop, the rest of the
\* batch is dropped
RecalcFail_AbortsBatch(c) ==
  /\ cons[c].pc \in {"del", "agg", "find", "setex", "write"}
  /\ nfails < MaxFails
  /\ nfails' = nfails + 1
  /\ cons' = [cons EXCEPT ![c] = IdleCons]
  /\ UNCHANGED <<bulk, search, web, ratings, movie, ver, stream, cache, doc, req, nops, lastPass, lastPush, manual, reader>>

\* mutant of RecalcFail: the catch of processEvents acknowledges the message
RecalcFail_Acks(c) ==
  /\ cons[c].pc \in {"del", "agg", "find", "setex", "write"}
  /\ nfails < MaxFails
  /\ nfails' = nfails + 1
  /\ stream' = [stream EXCEPT ![Head(cons[c].batch)].st = "acked"]
  /\ cons' = [cons EXCEPT ![c] = NextMessage(c)]
  /\ UNCHANGED <<bulk, search, web, ratings, movie, ver, cache, doc, req, nops, lastPass, lastPush, manual, reader>>

\* a redis or prisma call of recalculateMovieStats throws: rethrown to
\* processEvents, whose catch logs and goes on without xack
RecalcFail(c) ==
  /\ cons[c].pc \in {"del", "agg", "find", "setex", "write"}
  /\ nfails < MaxFails
  /\ nfails' = nfails + 1
  /\ cons' = [cons EXCEPT ![c] = NextMessage(c)]
  /\ UNCHANGED <<bulk, search, web, ratings, movie, ver, stream, cache, doc, req, nops, lastPass, lastPush, manual, reader>>

\* processEvents: redis.xack(streamKey, group, messageId) after the pass
XAck(c) ==
  /\ cons[c].pc = "ack"
  /\ stream' = [stream EXCEPT ![Head(cons[c].batch)].st = "acked",
                              ![Head(cons[c].batch)].indexed = ("search" \in cons[c].ok)]
  /\ cons' = [cons EXCEPT ![c] = NextMessage(c)]
  /\ UNCHANGED <<bulk, search, web, ratings, movie, ver, cache, doc, req, nops, nfails, lastPass, lastPush, manual, reader>>

\* processEvents: the xack itself throws; same catch, no acknowledgment
XAckFail(c) ==
  /\ cons[c].pc = "ack"
  /\ nfails < MaxFails
  /\ nfails' = nfails + 1
  /\ cons' = [cons EXCEPT ![c] = NextMessage(c)]
  /\ UNCHANGED <<bulk, search, web, ratings, movie, ver, stream, cache, doc, req, nops, lastPass, lastPush, manual, reader>>

\* manualRecalculation(movieId) on consumer instance c: recalculateMovieStats
\* is called at once, whatever isProcessing is, and issues redis.del
ManualRecalculation(c, m) ==
  /\ manual[c].pc = "idle"
  /\ manual[c].calls < MaxCalls
  /\ manual' = [manual EXCEPT ![c] = [IdleCall EXCEPT !.pc = "del", !.movieId = m,
                                                       !.calls = manual[c].calls + 1]]
  /\ UNCHANGED <<bulk, search, web, ratings, movie, ver, stream, cache, doc, req,
                 cons, nops, nfails, lastPass, lastPush, reader>>

\* the awaits of the recalculateMovieStats that manualRecalculation runs:
\* redis.del, rating.aggregate, rating.findMany, redis.setex, movie.update,
\* updateMovieRating; then manualRecalculation returns
ManualPass(c) ==
  LET m == manual[c].movieId
      a == Aggregate(ratings, m)
      st == manual[c].stats
      to(pc) == [manual EXCEPT ![c].pc = pc]
  IN /\ manual[c].pc # "idle"
     /\ CASE manual[c].pc = "del" ->
               /\ cache' = [cache EXCEPT ![m] = NoStats]
               /\ manual' = to("agg")
               /\ UNCHANGED <<movie, doc>>
          [] manual[c].pc = "agg" ->
               /\ manual' = [manual EXCEPT
                    ![c].stats = [NoStats EXCEPT !.averageRating = a.avgRating,
                                                 !.totalRatings = a.ratingsCount],
                    ![c].pc = IF a.ratingsCount = 0 THEN "write" ELSE "find"]
               /\ UNCHANGED <<cache, movie, doc>>
          [] manual[c].pc = "find" ->
               /\ manual' = [manual EXCEPT
                    ![c].stats.ratingDistribution = RatingDistribution(ratings, m),
                    ![c].pc = "setex"]
               /\ UNCHANGED <<cache, movie, doc>>
          [] manual[c].pc = "setex" ->
               /\ cache' = [cache EXCEPT ![m] = st]
               /\ manual' = to("write")
               /\ UNCHANGED <<movie, doc>>
          [] manual[c].pc = "write" ->
               /\ movie' = [movie EXCEPT ![m] = [avgRating |-> st.averageRating,
                                                 ratingsCount |-> st.totalRatings]]
               /\ manual' = to("search")
               /\ UNCHANGED <<cache, doc>>
          [] manual[c].pc = "search" ->
               /\ doc' = [doc EXCEPT ![m] = [averageRating |-> st.averageRating,
                                             ratingCount |-> st.totalRatings]]
               /\ manual' = [manual EXCEPT ![c] = [IdleCall EXCEPT !.calls = manual[c].calls]]
               /\ UNCHANGED <<cache, movie>>
     /\ UNCHANGED <<bulk, search, web, ratings, ver, stream, req, cons, nops, nfails,
                    lastPass, lastPush, reader>>

\* the stats of movie m computed from the ratings rs
StatsOf(rs, m) ==
  [averageRating |-> Aggregate(rs, m).avgRating,
   totalRatings |-> Aggregate(rs, m).ratingsCount,
   ratingDistribution |-> RatingDistribution(rs, m)]

\* GET /ratings/movie/:id/stats -> getMovieRatingStats(m), one await at a
\* time: redis.get (a hit is returned), movie.findUnique with its ratings (no
\* rating: zero stats are returned, nothing is cached), redis.setex of the
\* stats computed from what was read
GetMovieRatingStats(m) ==
  /\ CASE reader.pc = "idle" ->
            /\ reader.calls < MaxCalls
            /\ reader' = IF cache[m] # NoStats
                         THEN [IdleCall EXCEPT !.stats = cache[m],
                                               !.calls = reader.calls + 1]
                         ELSE [IdleCall EXCEPT !.pc = "find", !.movieId = m,
                                               !.calls = reader.calls + 1]
            /\ cache' = cache
       [] reader.pc = "find" ->
            /\ reader.movieId = m
            /\ reader' = [reader EXCEPT
                 !.stats = StatsOf(ratings, m),
                 !.pc = IF RatingIdsOf(ratings, m) = {} THEN "idle" ELSE "setex",
                 !.movieId = IF RatingIdsOf(ratings, m) = {} THEN 0 ELSE m]
            /\ cache' = cache
       [] reader.pc = "setex" ->
            /\ reader.movieId = m
            /\ cache' = [cache EXCEPT ![m] = reader.stats]
            /\ reader' = [reader EXCEPT !.pc = "idle", !.movieId = 0]
  /\ UNCHANGED <<bulk, search, web, ratings, movie, ver, stream, doc, req, cons,
                 nops, nfails, lastPass, lastPush, manual>>

\* ---------------------------------------------------------------- bulk sync
\* Averages of this part are integers in thousandths of a star, so that the
\* unrounded mean of transformMovieForOpenSearch (3.666...) and the stored
\* two-decimal avgRating (3.67) are different values.
RECURSIVE SumSeq(_)
SumSeq(q) == IF q = <<>> THEN 0 ELSE Head(q) + SumSeq(Tail(q))

\* ratings.reduce((sum, r) => sum + r.stars, 0) / ratings.length
Mean(stars) == (1000 * SumSeq(stars)) \div Len(stars)

\* value || 0
OrZero(x) == IF x \in {Undefined, Null, 0} THEN 0 ELSE x

\* type, release year and rating stars of the seeded movies
Profiles == {[type |-> "MOVIE", year |-> 1999, stars |-> <<5>>],
             [type |-> "TV_SHOW", year |-> 2010, stars |-> <<>>],
             [type |-> "MOVIE", year |-> 2020, stars |-> <<3, 4, 4>>]}

\* a row of the movie table with its ratings included; avgRating and
\* ratingsCount as updateMovieAggregates leaves them (column default 0)
MovieRow(id, pr) ==
  [id |-> id, title |-> IF id % 2 = 1 THEN "Alien" ELSE "Heat",
   type |-> pr.type,
   releaseYear |-> pr.year, stars |-> pr.stars,
   avgRating |-> IF pr.stars = <<>> THEN 0
                 ELSE 10 * ToFixed2(SumSeq(pr.stars), Len(pr.stars)),
   ratingsCount |-> Len(pr.stars)]

NoDoc == [found |-> FALSE, id |-> 0, title |-> "", type |-> "",
          releaseYear |-> 0,
          avgRating |-> Undefined, ratingsCount |-> Undefined,
          averageRating |-> Undefined, ratingCount |-> Undefined]

\* InitialSyncService.transformMovieForOpenSearch: the document handed to
\* bulkIndex('movies', documents)
transformMovieForOpenSearch(row) ==
  [found |-> TRUE, id |-> row.id, title |-> row.title, type |-> row.type,
   releaseYear |-> row.releaseYear,
   avgRating |-> IF Len(row.stars) > 0 THEN Mean(row.stars) ELSE Null,
   ratingsCount |-> OrZero(Len(row.stars)),
   averageRating |-> Undefined, ratingCount |-> Undefined]

\* the map of performFullSync followed by the document of bulkIndexMovies
\* (type.toUpperCase() leaves the MovieType values as they are)
transformedMovies(row) ==
  [found |-> TRUE, id |-> row.id, title |-> row.title, type |-> row.type,
   releaseYear |-> row.releaseYear,
   avgRating |-> Undefined, ratingsCount |-> Undefined,
   averageRating |-> OrZero(IF Len(row.stars) > 0 THEN Mean(row.stars) ELSE 0),
   ratingCount |-> OrZero(Len(row.stars))]

\* client.bulk of index actions for the rows ids with the documents docs:
\* each document is replaced
BulkWrite(ix, ids, docs) ==
  [i \in DOMAIN ix |-> IF i \in ids THEN docs[i] ELSE ix[i]]

\* the answer of POST /movies/sync/start
SyncStartResponse(status) == [IdleHttp EXCEPT !.route = "sync/start", !.status = status]

\* mutant of StartSync: no isRunning test
StartSync_Unguarded(bs) ==
  /\ nsyncs < MaxSyncs
  /\ nsyncs' = nsyncs + 1
  /\ sync' = [IdleSync EXCEPT !.isRunning = TRUE, !.batchSize = bs,
                              !.currentOperation = "Counting records",
                              !.pc = "count"]
  /\ http' = SyncStartResponse(201)
  /\ UNCHANGED <<pipeline, search, config, movies, index, full>>

\* POST /movies/sync/start -> startSync: the isRunning test and set, then
\* performSync up to its first await (clearOpenSearchData does nothing)
StartSync(bs) ==
  /\ ~sync.isRunning
  /\ nsyncs < MaxSyncs
  /\ nsyncs' = nsyncs + 1
  /\ sync' = [IdleSync EXCEPT !.isRunning = TRUE, !.batchSize = bs,
                              !.currentOperation = "Counting records",
                              !.pc = "count"]
  /\ http' = SyncStartResponse(201)
  /\ UNCHANGED <<pipeline, search, config, movies, index, full>>

\* POST /movies/sync/start while a sync runs: startSync throws 'Sync is
\* already running', startDataSync answers 400; the status is not touched
StartSyncRunning ==
  /\ sync.isRunning
  /\ http' = SyncStartResponse(400)
  /\ UNCHANGED <<pipeline, bulk, search, config>>

\* performSync resolves; the finally of startSync clears isRunning
SyncCompleted(s) ==
  [s EXCEPT !.currentOperation = "Sync completed", !.isRunning = FALSE,
            !.pc = "idle", !.page = {}]

\* while (skip < totalMovies)
WhileSkip(s) == IF s.skip < s.totalRecords THEN [s EXCEPT !.pc = "find"]
                ELSE SyncCompleted(s)

\* performSync: prisma.movie.count()
SyncCount ==
  /\ sync.pc = "count"
  /\ sync' = WhileSkip([sync EXCEPT !.totalRecords = Len(movies),
                                    !.currentOperation = "Syncing movies"])
  /\ UNCHANGED <<pipeline, search, web, movies, index, full, nsyncs>>

\* the pages findMany({skip, take}) can return when no orderBy is given: the
\* store returns the rows in an order of its choosing at every query, so the
\* page is any take rows (fewer when fewer than skip + take exist)
PageRows(skip, take) ==
  {S \in SUBSET (1..Len(movies)) :
     Cardinality(S) = Min(take, Len(movies) - Min(skip, Len(movies)))}

\* performSync: prisma.movie.findMany({skip, take: batchSize, include})
SyncFindMany ==
  /\ sync.pc = "find"
  /\ \E S \in PageRows(sync.skip, sync.batchSize) :
       sync' = IF S = {} THEN SyncCompleted(sync)
               ELSE [sync EXCEPT !.pc = "bulk", !.page = S]
  /\ UNCHANGED <<pipeline, search, web, movies, index, full, nsyncs>>

\* syncMoviesToOpenSearch: bulkIndex succeeds, then skip += batchSize
SyncMoviesToOpenSearch ==
  /\ sync.pc = "bulk"
  /\ index' = BulkWrite(index, sync.page,
                           [i \in DOMAIN movies |-> transformMovieForOpenSearch(movies[i])])
  /\ LET skip == sync.skip + sync.batchSize
         total == sync.totalRecords
     IN sync' = WhileSkip([sync EXCEPT
                  !.skip = skip, !.processedRecords = skip, !.page = {},
                  \* Math.round((skip / totalMovies) * 100)
                  !.progress = (200 * skip + total) \div (2 * total)])
  /\ UNCHANGED <<pipeline, search, web, movies, full, nsyncs>>

\* syncMoviesToOpenSearch: the bulk response reports errors for some items
\* (the others are indexed) or the call throws; bulkIndex throws,
\* syncMoviesToOpenSearch and performSync rethrow, the catch of performSync
\* and the catch of startSync each push the message, the finally clears
\* isRunning
SyncMoviesToOpenSearchFail ==
  /\ sync.pc = "bulk"
  /\ nfails < MaxFails
  /\ nfails' = nfails + 1
  /\ \E done \in SUBSET sync.page :
       /\ done # sync.page
       /\ index' = BulkWrite(index, done,
                           [i \in DOMAIN movies |-> transformMovieForOpenSearch(movies[i])])
  /\ sync' = [sync EXCEPT !.pc = "idle", !.isRunning = FALSE, !.page = {},
                          !.errors = @ \o <<"Bulk indexing failed",
                                            "Bulk indexing failed">>]
  /\ UNCHANGED <<search, web, ratings, movie, ver, stream, cache, doc, req, cons,
                 nops, lastPass, lastPush, movies, full, nsyncs, manual, reader>>

\* triggerFullResync / checkAndPerformInitialSync -> performFullSync
PerformFullSync ==
  /\ full.pc = "idle"
  /\ nsyncs < MaxSyncs
  /\ nsyncs' = nsyncs + 1
  /\ full' = [IdleFull EXCEPT !.pc = "find"]
  /\ UNCHANGED <<pipeline, search, web, movies, index, sync>>

\* performFullSync: findMany({skip: offset, take: batchSize, orderBy id asc});
\* an empty page ends the loop
FullFindMany ==
  /\ full.pc = "find"
  /\ LET S == (full.offset + 1)..Min(full.offset + batchSize, Len(movies))
     IN full' = IF S = {} THEN [full EXCEPT !.pc = "idle", !.res = "completed"]
                ELSE [full EXCEPT !.pc = "bulk", !.page = S]
  /\ UNCHANGED <<pipeline, search, web, movies, index, sync, nsyncs>>

\* performFullSync: bulkIndexMovies succeeds, offset += batchSize
BulkIndexMovies ==
  /\ full.pc = "bulk"
  /\ index' = BulkWrite(index, full.page,
                           [i \in DOMAIN movies |-> transformedMovies(movies[i])])
  /\ full' = [full EXCEPT !.pc = "find", !.page = {},
                          !.totalSynced = @ + Cardinality(full.page),
                          !.offset = @ + batchSize]
  /\ UNCHANGED <<pipeline, search, web, movies, sync, nsyncs>>

\* performFullSync: bulkIndexMovies throws (bulk errors), the catch of
\* performFullSync rethrows
BulkIndexMoviesFail ==
  /\ full.pc = "bulk"
  /\ nfails < MaxFails
  /\ nfails' = nfails + 1
  /\ \E done \in SUBSET full.page :
       /\ done # full.page
       /\ index' = BulkWrite(index, done,
                           [i \in DOMAIN movies |-> transformedMovies(movies[i])])
  /\ full' = [full EXCEPT !.pc = "idle", !.page = {}, !.res = "failed"]
  /\ UNCHANGED <<search, web, ratings, movie, ver, stream, cache, doc, req, cons,
                 nops, lastPass, lastPush, movies, sync, nsyncs, manual, reader>>

\* -------------------------------------------------------------- query parser
\* A query is the sequence of its whitespace-separated words, in lower case.
\* Star values are thousandths of a star.

\* words made of digits, and the value parseInt gives them
Numbers == {"3", "6", "2000"}
IntVal(t) == CASE t = "3" -> 3 [] t = "6" -> 6 [] t = "2000" -> 2000

\* parseFloat
parseFloat(t) == 1000 * IntVal(t)

\* normalizeQuery on one word: the "than" and "stars" misspellings
normalizeWord(t) ==
  CASE t \in {"then", "thand", "thna", "tha"} -> "than"
    [] t \in {"star", "str", "strs"} -> "stars"
    [] OTHER -> t

normalizeQuery(q) == [i \in DOMAIN q |-> normalizeWord(q[i])]

\* a pattern: keyword alternatives, then a number (\d{4} or \d+), then an
\* optional unit (stars?, years?)
Pattern(keys, args, units) == [keys |-> keys, args |-> args, units |-> units]

afterPattern == Pattern({<<"after">>, <<"since">>, <<"from">>}, {"2000"}, {})
beforePattern == Pattern({<<"before">>}, {"2000"}, {})
olderPattern == Pattern({<<"older", "than">>}, Numbers, {"year", "years"})
newerPattern ==
  Pattern({<<"newer", "than">>, <<"within", "last">>, <<"within", "the", "last">>,
           <<"in", "the", "past">>}, Numbers, {"year", "years"})
lessThanPattern ==
  Pattern({<<"less", "than">>, <<"under">>, <<"below">>, <<"maximum">>, <<"max">>},
          Numbers, {"star", "stars"})
moreThanPattern ==
  Pattern({<<"more", "than">>, <<"above">>, <<"over">>}, Numbers, {"star", "stars"})
atLeastPattern ==
  Pattern({<<"at", "least">>, <<"minimum">>, <<"min">>}, Numbers, {"star", "stars"})
atMostPattern ==
  Pattern({<<"at", "most">>, <<"maximum", "of">>, <<"max", "of">>}, Numbers,
          {"star", "stars"})
exactPattern == Pattern({<<"exactly">>, <<>>}, Numbers, {"star", "stars"})

\* the keyword alternatives of P that match q at word i
KeysAt(q, i, P) ==
  {k \in P.keys :
     /\ i + Len(k) + (IF P.units = {} THEN 0 ELSE 1) <= Len(q)
     /\ SubSeq(q, i, i + Len(k) - 1) = k
     /\ q[i + Len(k)] \in P.args
     /\ P.units # {} => q[i + Len(k) + 1] \in P.units}

\* String.match / the span String.replace removes: the leftmost match, at 0
\* when there is none
Match(q, P) ==
  LET starts == {i \in DOMAIN q : KeysAt(q, i, P) # {}}
  IN IF starts = {} THEN [at |-> 0, len |-> 0, arg |-> ""]
     ELSE LET at == CHOOSE i \in starts : \A j \in starts : i <= j
              k == CHOOSE k \in KeysAt(q, at, P) : TRUE
          IN [at |-> at, len |-> Len(k) + (IF P.units = {} THEN 1 ELSE 2),
              arg |-> q[at + Len(k)]]

\* cleanedQuery.replace(pattern, '').trim()
Replace(q, P) ==
  LET m == Match(q, P)
  IN IF m.at = 0 THEN q
     ELSE SubSeq(q, 1, m.at - 1) \o SubSeq(q, m.at + m.len, Len(q))

\* one link of the if / else chain: when the pattern matches, the chain ends
\* here, with minRating = stars + min and maxRating = stars + max (Undefined:
\* not assigned) only for stars >= 1 && stars <= 5
Link(n, cleaned, P, min, max, else) ==
  LET m == Match(n, P)
      stars == parseFloat(m.arg)
  IN IF m.at = 0 THEN else
     ELSE IF stars >= 1000 /\ stars <= 5000
          THEN [minRating |-> IF min = Undefined THEN Undefined ELSE stars + min,
                maxRating |-> IF max = Undefined THEN Undefined ELSE stars + max,
                cleaned |-> Replace(cleaned, P)]
          ELSE [minRating |-> Undefined, maxRating |-> Undefined, cleaned |-> cleaned]

\* mutant of RatingChain: the exact pattern is tried first
RatingChain_ExactFirst(n, cleaned) ==
  Link(n, cleaned, exactPattern, 0, 0,
  Link(n, cleaned, lessThanPattern, Undefined, -10,
  Link(n, cleaned, moreThanPattern, 10, Undefined,
  Link(n, cleaned, atLeastPattern, 0, Undefined,
  Link(n, cleaned, atMostPattern, Undefined, 0,
       [minRating |-> Undefined, maxRating |-> Undefined, cleaned |-> cleaned])))))

\* parseQuery, step 4: less than (stars - 0.01), more than (stars + 0.01),
\* at least, at most, exact
RatingChain(n, cleaned) ==
  Link(n, cleaned, lessThanPattern, Undefined, -10,
  Link(n, cleaned, moreThanPattern, 10, Undefined,
  Link(n, cleaned, atLeastPattern, 0, Undefined,
  Link(n, cleaned, atMostPattern, Undefined, 0,
  Link(n, cleaned, exactPattern, 0, 0,
       [minRating |-> Undefined, maxRating |-> Undefined, cleaned |-> cleaned])))))

\* a year or age criterion: the value when the normalized query matches
Value(n, P) == IF Match(n, P).at = 0 THEN Undefined ELSE IntVal(Match(n, P).arg)

\* the cleaned query after the step of P
Cleaned(n, cleaned, P) == IF Match(n, P).at = 0 THEN cleaned ELSE Replace(cleaned, P)

\* QueryParserService.parseQuery; the text is kept when it has two characters
\* or more ("3" and "6" are the words of one character)
parseQuery(q) ==
  LET n == normalizeQuery(q)
      c1 == Cleaned(n, q, afterPattern)
      c2 == Cleaned(n, c1, beforePattern)
      c3 == Cleaned(n, c2, olderPattern)
      c4 == Cleaned(n, c3, newerPattern)
      r == RatingChain(n, c4)
      text == r.cleaned
  IN [minRating |-> r.minRating, maxRating |-> r.maxRating,
      afterYear |-> Value(n, afterPattern),
      beforeYear |-> Value(n, beforePattern),
      olderThanYears |-> Value(n, olderPattern),
      newerThanYears |-> Value(n, newerPattern),
      textQuery |-> IF Len(text) >= 2 \/ (Len(text) = 1 /\ text[1] \notin {"3", "6"})
                    THEN text ELSE <<>>]

\* parseQuery applied to the query at hand
ParseQuery ==
  /\ criteria' = parseQuery(query)
  /\ UNCHANGED <<pipeline, bulk, web, query, searchBody, hits>>

\* ----------------------------------------------------------- search gateway
MovieTypes == {"MOVIE", "TV_SHOW"}

\* a clause of the compiled bool query
Clause(kind, field, op, num, str) ==
  [kind |-> kind, field |-> field, op |-> op, num |-> num, str |-> str,
   text |-> <<>>]

MatchAll == Clause("match_all", "", "", 0, "")

\* the relevance clause on title, description and cast for the words text
Text(text) == [Clause("text", "title", "", 0, "") EXCEPT !.text = text]

SeqToSet(q) == {q[i] : i \in DOMAIN q}

\* the engine's evaluation of one clause on a document; a range on a field
\* the document does not have matches nothing; releaseDate bounds are the
\* first of January of the year num
Holds(d, c) ==
  CASE c.kind = "match_all" -> TRUE
    [] c.kind = "term" -> d.type = c.str
    [] c.kind = "range" /\ c.field = "averageRating" ->
         /\ d.averageRating \notin {Undefined, Null}
         /\ IF c.op = "gte" THEN d.averageRating >= c.num
            ELSE d.averageRating <= c.num
    [] c.kind = "range" /\ c.field = "releaseDate" ->
         IF c.op = "gte" THEN d.releaseYear >= c.num ELSE d.releaseYear < c.num
    [] c.kind = "text" ->
         \* the analyzer of the text fields lower-cases the title
         c.text = <<CASE d.title = "Alien" -> "alien" [] d.title = "Heat" -> "heat"
                      [] OTHER -> d.title>>
    [] OTHER -> FALSE

\* bool query: every must, no must_not, and one should when should is given
Matches(d, body) ==
  /\ d.found
  /\ \A c \in SeqToSet(body.must) : Holds(d, c)
  /\ \A c \in SeqToSet(body.must_not) : ~Holds(d, c)
  /\ body.should # <<>> => \E c \in SeqToSet(body.should) : Holds(d, c)

\* sort averageRating desc, ratingCount desc; documents without the field
\* come last; equal keys are listed in document order
Before(a, b) ==
  \/ a.averageRating > b.averageRating
  \/ a.averageRating = b.averageRating /\ a.ratingCount > b.ratingCount
  \/ a.averageRating = b.averageRating /\ a.ratingCount = b.ratingCount
     /\ a.id < b.id

RECURSIVE SortDocs(_)
SortDocs(S) ==
  IF S = {} THEN <<>>
  ELSE LET first == CHOOSE a \in S : \A b \in S \ {a} : Before(a, b)
       IN <<first>> \o SortDocs(S \ {first})

\* from: offset, size: limit
Page(q, offset, limit) ==
  IF offset >= Len(q) THEN <<>>
  ELSE SubSeq(q, offset + 1, Min(offset + limit, Len(q)))

\* buildTopRatedQuery(type)
buildTopRatedQuery(type) ==
  [must |-> IF type # NoType THEN <<Clause("term", "type", "", 0, type)>> ELSE <<MatchAll>>,
   must_not |-> <<>>, should |-> <<>>,
   sort |-> <<"averageRating", "ratingCount">>]

\* transformOpenSearchHit(hit): the CleanMovie of a hit's _source
transformOpenSearchHit(source) ==
  [id |-> source.id, title |-> source.title, type |-> source.type,
   avgRating |-> OrZero(source.averageRating),
   ratingsCount |-> OrZero(source.ratingCount)]

\* mustClauses.push(clause) under a condition
If(cond, clause) == IF cond THEN <<clause>> ELSE <<>>

\* the type, rating, year and age clauses, in the order they are pushed: the
\* ratings when not undefined, the years and ages when truthy
Filters(c, type, now) ==
  If(type # NoType, Clause("term", "type", "", 0, type))
  \o If(c.minRating # Undefined,
        Clause("range", "averageRating", "gte", c.minRating, ""))
  \o If(c.maxRating # Undefined,
        Clause("range", "averageRating", "lte", c.maxRating, ""))
  \o If(c.afterYear \notin {Undefined, 0},
        Clause("range", "releaseDate", "gte", c.afterYear, ""))
  \o If(c.beforeYear \notin {Undefined, 0},
        Clause("range", "releaseDate", "lt", c.beforeYear + 1, ""))
  \o If(c.olderThanYears \notin {Undefined, 0},
        Clause("range", "releaseDate", "lt", now - c.olderThanYears, ""))
  \o If(c.newerThanYears \notin {Undefined, 0},
        Clause("range", "releaseDate", "gte", now - c.newerThanYears, ""))

\* buildOpenSearchQuery(criteria, type), the revision with the text clause
\* among the must clauses: no clause at all gives must_not match_all
buildOpenSearchQuery(c, type, now) ==
  LET mustClauses == Filters(c, type, now)
                     \o (IF c.textQuery # <<>> THEN <<Text(c.textQuery)>> ELSE <<>>)
  IN [must |-> mustClauses,
      must_not |-> IF mustClauses # <<>> THEN <<>> ELSE <<MatchAll>>,
      should |-> <<>>,
      sort |-> <<"_score", "averageRating", "ratingCount">>]

\* buildOpenSearchQuery(criteria, type), the revision with shouldClauses: no
\* filter gives must match_all
buildOpenSearchQueryShould(c, type, now) ==
  LET mustClauses == Filters(c, type, now)
  IN [must |-> IF mustClauses # <<>> THEN mustClauses ELSE <<MatchAll>>,
      must_not |-> <<>>,
      should |-> IF c.textQuery # <<>> THEN <<Text(c.textQuery)>> ELSE <<>>,
      sort |-> <<"averageRating", "ratingCount", "_score">>]

\* searchMovies compiles the parsed criteria
BuildOpenSearchQuery(type, now) ==
  /\ searchBody' = buildOpenSearchQuery(criteria, type, now)
  /\ UNCHANGED <<pipeline, bulk, web, query, criteria, hits>>

BuildOpenSearchQueryShould(type, now) ==
  /\ searchBody' = buildOpenSearchQueryShould(criteria, type, now)
  /\ UNCHANGED <<pipeline, bulk, web, query, criteria, hits>>

\* client.search on the index with the compiled body
Search(body, offset, limit) ==
  LET found == {index[i] : i \in {j \in DOMAIN index : Matches(index[j], body)}}
      page == Page(SortDocs(found), offset, limit)
  IN [movies |-> [k \in DOMAIN page |-> transformOpenSearchHit(page[k])],
      total |-> Cardinality(found)]

\* GET /movies/top?type= -> getTopRatedMovies(type, page, limit)
GetTopRatedMovies(type, page, limit) ==
  /\ LET r == Search(buildTopRatedQuery(type), page * limit, limit)
     IN hits' = [type |-> type, movies |-> r.movies, total |-> r.total]
  /\ UNCHANGED <<pipeline, bulk, web, query, criteria, searchBody>>

\* ------------------------------------------------------------- HTTP surface
\* parseInt(s, 10) of a query parameter; NaN compares false with everything
NaN == -1000
parseInt(s) ==
  CASE s = "-1" -> -1 [] s = "0" -> 0 [] s = "1" -> 1 [] s = "10" -> 10
    [] s = "50" -> 50 [] s = "51" -> 51 [] s = "100" -> 100 [] OTHER -> NaN

Lt(a, b) == a # NaN /\ b # NaN /\ a < b

\* a request arrives at a route of MoviesController
Request(route, key, limit, page, type) ==
  /\ http.pc = "idle"
  /\ http' = [IdleHttp EXCEPT !.pc = "guard", !.route = route, !.apiKey = key,
                              !.limit = limit, !.page = page, !.type = type]
  /\ UNCHANGED <<pipeline, bulk, search, config>>

\* the response is sent
Respond(status) == [http EXCEPT !.pc = "idle", !.status = status]

\* ApiKeyGuard.canActivate: TRUE when the request may pass, FALSE when it
\* throws UnauthorizedException
canActivate(apiKey, validApiKey) ==
  /\ apiKey # NoKey
  /\ validApiKey = NoKey \/ apiKey = validApiKey

\* @UseGuards(ApiKeyGuard) in front of every handler of the controller
CanActivate ==
  /\ http.pc = "guard"
  /\ http' = IF canActivate(http.apiKey, config)
             THEN [http EXCEPT !.pc = "handler"]
             ELSE Respond(401)
  /\ UNCHANGED <<pipeline, bulk, search, config>>

\* the default of a query parameter that is not given
OrDefault(s, default) == IF s = Absent THEN default ELSE s

\* the gateway call of a handler: the search, or the engine's error (500);
\* a NaN from or size is serialized as null, which the engine reads as its
\* default
Gateway(body, offset, limit) ==
  \/ /\ LET r == Search(body, IF offset = NaN THEN 0 ELSE offset,
                          IF limit = NaN THEN DefaultLimit ELSE limit)
        IN hits' = [type |-> http.type, movies |-> r.movies, total |-> r.total]
     /\ http' = [Respond(200) EXCEPT !.gateway = TRUE]
  \/ /\ hits' = hits
     /\ http' = [Respond(500) EXCEPT !.gateway = TRUE]

\* GET /movies/search (no query text: the top-rated body)
SearchMovies ==
  /\ http.pc = "handler"
  /\ http.route = "search"
  /\ LET pageNum == parseInt(OrDefault(http.page, "1"))
         limitNum == parseInt(OrDefault(http.limit, "10"))
     IN IF Lt(pageNum, 1) \/ Lt(limitNum, 1) \/ Lt(50, limitNum) \/ http.type \notin MovieTypes \cup {NoType}
        THEN http' = Respond(400) /\ hits' = hits
        ELSE Gateway(buildTopRatedQuery(http.type),
                     IF pageNum = NaN \/ limitNum = NaN THEN NaN
                     ELSE (pageNum - 1) * limitNum,
                     limitNum)
  /\ UNCHANGED <<pipeline, bulk, query, criteria, searchBody, config>>

\* parseInt(limit, 10) || 10, clamped into 1..50
LimitNum(limit) ==
  LET n == parseInt(limit)
  IN Min(IF n \in {NaN, 0} THEN 10 ELSE IF n < 1 THEN 1 ELSE n, 50)

\* GET /movies/top
GetTopMovies ==
  /\ http.pc = "handler"
  /\ http.route = "top"
  /\ LET limitNum == LimitNum(OrDefault(http.limit, "10"))
         clientPage == parseInt(OrDefault(http.page, "0"))
     IN IF clientPage = NaN \/ clientPage < 0 \/ http.type \notin MovieTypes \cup {NoType}
        THEN http' = Respond(400) /\ hits' = hits
        ELSE Gateway(buildTopRatedQuery(http.type),
                     (IF clientPage > 0 THEN clientPage ELSE 0) * limitNum, limitNum)
  /\ UNCHANGED <<pipeline, bulk, query, criteria, searchBody, config>>

\* ------------------------------------------------------------ specification
AnySource == Sources \cup {NoSource}

\* the RatingService operations behind /ratings, with valid and invalid inputs
RatingsApi ==
  \E p \in Clients :
    \/ \E m \in MovieIds, st \in StarsInputs, s \in AnySource : PostRating(p, m, st, s)
    \/ CreateRating(p)
    \/ CreateRatingTx(p)
    \/ CreateRatingTxFail(p)
    \/ \E rid \in 1..MaxOps, st \in StarsInputs, s \in AnySource : PutRating(p, rid, st, s)
    \/ UpdateRatingTx(p)
    \/ PublishRatingEvent(p)
    \/ PublishRatingEventFail(p)
    \/ \E m \in MovieIds, st \in StarsInputs, s \in AnySource : CreateOrUpdateRating(p, m, st, s)

RatingsSpec == Init /\ [][RatingsApi]_vars

\* POST /movies/:id/rate, with valid and invalid inputs
MoviesApi ==
  \E p \in Clients :
    \/ \E m \in MovieIds, st \in StarsInputs : RateMovie(p, m, st)
    \/ \E m \in MovieIds, st \in StarsInputs : RateMovieFail(p, m, st)
    \/ EmitRatingEvent(p)
    \/ EmitRatingEventFail(p)

IngestSpec == Init /\ [][RatingsApi \/ MoviesApi]_vars

\* accepted submissions only: what reaches the store and the stream
Submit ==
  \E p \in Submitters :
    \/ \E m \in ExistingMovies, st \in PipelineStars : PostRating(p, m, st, NoSource)
    \/ CreateRatingTx(p)
    \/ \E rid \in 1..MaxOps, st \in PipelineStars : PutRating(p, rid, st, NoSource)
    \/ UpdateRatingTx(p)
    \/ PublishRatingEvent(p)
    \/ PublishRatingEventFail(p)
    \/ \E m \in ExistingMovies, st \in PipelineStars : RateMovie(p, m, st)
    \/ EmitRatingEvent(p)
    \/ EmitRatingEventFail(p)

Consume ==
  \E c \in Consumers :
    \/ StartStreamProcessor(c)
    \/ RecalcDel(c)
    \/ RecalcAggregate(c)
    \/ RecalcFindMany(c)
    \/ RecalcSetex(c)
    \/ updateMovieRecord(c)
    \/ updateMovieRating(c)
    \/ updateMovieRatingFail(c)
    \/ RecalcFail(c)
    \/ XAck(c)
    \/ XAckFail(c)

Next == Submit \/ Consume

Spec == Init /\ [][Next]_vars

\* the steps of the polling loop that run when no call throws
ConsumerStep(c) ==
  \/ StartStreamProcessor(c)
  \/ RecalcDel(c)
  \/ RecalcAggregate(c)
  \/ RecalcFindMany(c)
  \/ RecalcSetex(c)
  \/ updateMovieRecord(c)
  \/ updateMovieRating(c)
  \/ XAck(c)

\* the while (this.running) loop of every consumer keeps running; calls fail
\* at most MaxFails times in a run, so every failure is transient
FairSpec == Spec /\ \A c \in Consumers : WF_vars(ConsumerStep(c))

\* rating submissions, entries without data, and one consumer whose calls
\* can throw
PoisonSpec ==
  Init /\ [][\/ Submit
            \/ XAddInvalid
            \/ \E c \in {"c1"} :
                 \/ ConsumerStep(c)
                 \/ XAckInvalid(c)
                 \/ RecalcFail(c)
                 \/ updateMovieRatingFail(c)
                 \/ XAckFail(c)]_vars

\* rating submissions, one consumer and getMovieRatingStats readers
ReaderSpec ==
  Init /\ [][\/ Submit
            \/ ConsumerStep("c1")
            \/ \E m \in ExistingMovies : GetMovieRatingStats(m)]_vars

\* one consumer instance, its polling loop and the manualRecalculation calls
\* made on it
ManualSpec ==
  Init /\ [][\/ Submit
            \/ ConsumerStep("c1")
            \/ \E m \in ExistingMovies : ManualRecalculation("c1", m)
            \/ ManualPass("c1")]_vars


\* a seeded movie table, an empty index, no rating traffic
InitSync ==
  /\ InitPipeline
  /\ sync = IdleSync
  /\ full = IdleFull
  /\ nsyncs = 0
  /\ http = IdleHttp
  /\ config = NoKey
  /\ query = <<>>
  /\ criteria = NoCriteria
  /\ searchBody = NoBody
  /\ hits = NoHits
  /\ \E n \in 0..MaxMovies : \E pf \in [1..n -> Profiles] :
       movies = [i \in 1..n |-> MovieRow(i, pf[i])]
  /\ index = [i \in DOMAIN movies |-> NoDoc]

SyncNext ==
  \/ \E bs \in {1, 2} : StartSync(bs)
  \/ StartSyncRunning
  \/ SyncCount
  \/ SyncFindMany
  \/ SyncMoviesToOpenSearch
  \/ SyncMoviesToOpenSearchFail
  \/ PerformFullSync
  \/ FullFindMany
  \/ BulkIndexMovies
  \/ BulkIndexMoviesFail

SyncSpec == InitSync /\ [][SyncNext]_vars

\* the initial sync and top-rated queries against the index it fills
RoundTripNext ==
  \/ \E bs \in {1, 2} : StartSync(bs)
  \/ SyncCount
  \/ SyncFindMany
  \/ SyncMoviesToOpenSearch
  \/ SyncMoviesToOpenSearchFail
  \/ \E type \in MovieTypes : GetTopRatedMovies(type, 0, DefaultLimit)

RoundTripSpec == InitSync /\ [][RoundTripNext]_vars

\* the phrases queries are made of: a rating phrase (keyword, number, unit,
\* the keyword possibly missing, "than" and "stars" possibly misspelt), a year
\* phrase, a bare number and plain text
Parts ==
  {k \o <<a, u>> : k \in {<<>>, <<"less", "than">>, <<"more", "than">>,
                           <<"more", "then">>, <<"at", "least">>, <<"at", "most">>},
                   a \in {"3", "6"}, u \in {"stars", "strs"}}
    \cup {<<"before", "2000">>, <<"after", "2000">>, <<"3">>, <<"batman">>}

RECURSIVE QueriesOf(_)
QueriesOf(n) ==
  IF n = 0 THEN {<<>>}
  ELSE QueriesOf(n - 1) \cup {q \o p : q \in QueriesOf(n - 1), p \in Parts}

\* any query of at most MaxParts phrases, not yet parsed
InitParser ==
  /\ InitPipeline
  /\ sync = IdleSync
  /\ full = IdleFull
  /\ nsyncs = 0
  /\ http = IdleHttp
  /\ config = NoKey
  /\ movies = <<>>
  /\ index = <<>>
  /\ query \in QueriesOf(MaxParts)
  /\ criteria = NoCriteria
  /\ searchBody = NoBody
  /\ hits = NoHits

ParserSpec == InitParser /\ [][ParseQuery]_vars

\* any criteria, nothing compiled yet
InitCompile ==
  /\ InitPipeline
  /\ sync = IdleSync
  /\ full = IdleFull
  /\ nsyncs = 0
  /\ http = IdleHttp
  /\ config = NoKey
  /\ movies = <<>>
  /\ index = <<>>
  /\ query = <<>>
  /\ criteria \in
       [minRating : {Undefined, 3000}, maxRating : {Undefined, 2990},
        afterYear : {Undefined, 0, 2000}, beforeYear : {Undefined, 2000},
        olderThanYears : {Undefined, 5}, newerThanYears : {Undefined, 5},
        textQuery : {<<>>, <<"alien">>}]
  /\ searchBody = NoBody
  /\ hits = NoHits

CompileNext ==
  \E type \in MovieTypes \cup {NoType}, now \in {2025, 2026} :
    \/ BuildOpenSearchQuery(type, now)
    \/ BuildOpenSearchQueryShould(type, now)

CompileSpec == InitCompile /\ [][CompileNext]_vars

\* the service with or without an API_KEY in its environment, an empty index
InitHttp ==
  /\ InitPipeline
  /\ sync = IdleSync
  /\ full = IdleFull
  /\ nsyncs = 0
  /\ query = <<>>
  /\ criteria = NoCriteria
  /\ searchBody = NoBody
  /\ hits = NoHits
  /\ movies = <<>>
  /\ index = <<>>
  /\ http = IdleHttp
  /\ config \in {NoKey, "secret"}

HttpNext ==
  \/ \E route \in {"search", "top"}, key \in {NoKey, "secret", "wrong"},
        limit \in {Absent, "0", "1", "50", "51", "100", "abc"},
        page \in {Absent, "-1", "0", "1", "abc"},
        type \in {NoType, "MOVIE", "SERIES"} :
       Request(route, key, limit, page, type)
  \/ CanActivate
  \/ SearchMovies
  \/ GetTopMovies

HttpSpec == InitHttp /\ [][HttpNext]_vars

\* ------------------------------------------------------------------ claims
Acked(i) == i \in 1..Len(stream) /\ stream[i].st = "acked"

\* no call in flight, both consumers back at the poll, every event processed
Quiescent ==
  /\ \A p \in Clients : req[p].pc = "idle"
  /\ \A c \in Consumers : cons[c].pc = "poll"
  /\ \A i \in 1..Len(stream) : Acked(i)

\* C1: per-movie convergence.  Once rating writes have stopped and every
\* emitted event has been processed, avgRating and ratingsCount of every
\* movie equal the (two-decimal) average and the count of its ratings; stated
\* for runs in which no redis, store or search call failed.
C1_Convergence ==
  (Quiescent /\ nfails = 0) =>
    \A m \in ExistingMovies : movie[m] = Aggregate(ratings, m)


\* the steps of recalculateMovieStats that rethrow on failure, for a pass
\* that counted total ratings
ThrowingSteps(total) ==
  {"del", "agg", "write"} \cup (IF total > 0 THEN {"cache"} ELSE {})

\* message i goes from unacknowledged to acknowledged in this step
AckStep(i) == stream[i].st # "acked" /\ stream'[i].st = "acked"

\* the consumer that holds message i at the xack, with the steps in S done
AckedBy(i, S) ==
  \E c \in Consumers :
    /\ cons[c].pc = "ack"
    /\ Head(cons[c].batch) = i
    /\ S \subseteq cons[c].ok

\* C2 (as claimed): a message is acknowledged only after cache invalidation,
\* aggregate query, MovieRecord write, cache write and the search-index
\* partial update have all succeeded in the pass for its movie.
C2_AckOnlyAfterAllSteps ==
  [][\A i \in 1..Len(stream) :
       AckStep(i) => AckedBy(i, {"del", "agg", "write", "cache", "search"})]_vars

\* C2 (amended): a message is acknowledged only after cache invalidation,
\* aggregate query, MovieRecord write and (for a movie with ratings) the
\* cache write have succeeded in the pass for its movie; a failed search-index
\* update does not prevent the acknowledgment.
C2_AckOnlyAfterThrowingSteps ==
  [][\A i \in 1..Len(stream) :
       AckStep(i) =>
         \E c \in Consumers : /\ cons[c].pc = "ack"
                              /\ Head(cons[c].batch) = i
                              /\ ThrowingSteps(cons[c].total) \subseteq cons[c].ok]_vars

\* a message acknowledged although the search-index update of its pass failed
C2_Witness == \E i \in 1..Len(stream) : Acked(i) /\ ~stream[i].indexed

\* C4: recomputation is idempotent.  A pass that read the same rating
\* version as the pass completed before it writes the same avgRating and
\* ratingsCount to the MovieRecord, and pushes the same aggregate to the
\* search document as the push before it.
C4_Idempotent ==
  [][\A c \in Consumers :
       /\ (cons[c].pc = "write" /\ cons'[c].pc = "search"
             /\ lastPass[CurMovie(c)].ver = cons[c].ver)
          => movie'[CurMovie(c)] = [avgRating |-> lastPass[CurMovie(c)].avg,
                                    ratingsCount |-> lastPass[CurMovie(c)].cnt]
       /\ (cons[c].pc = "search" /\ doc' # doc
             /\ lastPush[CurMovie(c)].ver = cons[c].ver)
          => doc'[CurMovie(c)] = [averageRating |-> lastPush[CurMovie(c)].avg,
                                  ratingCount |-> lastPush[CurMovie(c)].cnt]]_vars

\* two passes in a row over the same ratings have written and pushed
C4_Witness ==
  \E m \in ExistingMovies :
    /\ lastPass[m].runs = 2
    /\ lastPush[m].runs = 2
    /\ lastPass[m].ver = ver[m]
    /\ movie[m] = Aggregate(ratings, m)

\* the only rating ever written for m is one 5-star rating submitted through
\* POST /movies/:id/rate, and that submit has returned
OneFiveStarSubmit(m) ==
  /\ ver[m] = 1
  /\ \E i \in 1..Len(ratings) :
       /\ RatingIdsOf(ratings, m) = {i}
       /\ ratings[i].stars = 5
       /\ ratings[i].sourceId = Anonymous
  /\ \A p \in Clients : req[p].pc # "emit"

FiveOne(m) == movie[m] = [avgRating |-> 500, ratingsCount |-> 1]

DocFiveOne(m) == doc[m] = [averageRating |-> 500, ratingCount |-> 1]

Failed(i) ==
  /\ i \in 1..Len(stream)
  /\ stream[i].st = "pending"
  /\ \A c \in Consumers : \A k \in 1..Len(cons[c].batch) : cons[c].batch[k] # i

\* no step of any consumer or client takes a failed message out of that
\* state: every poll reads with the id '>' and nothing claims pending entries
FailedStaysPending == [][\A i \in 1..MaxOps : Failed(i) => Failed(i)']_vars

\* C3: a message whose processing raised an exception is left unacknowledged
\* and is retried: under fair scheduling of the consumer loops and transient
\* failures it is eventually acknowledged.
C3_FailedIsRetried == \A i \in 1..MaxOps : Failed(i) ~> Acked(i)


\* client p makes its call in this step
Calls(p, op) == nops' = nops + 1 /\ req'[p].n = nops' /\ req'[p].op = op

AlreadyRated == "You have already rated this movie"

\* C6: at most one vote per identified source.  The store never holds two
\* RatingRecords with the same movieId and the same caller-supplied sourceId.
C6_OneVotePerSource ==
  \A i, j \in 1..Len(ratings) :
    (/\ ratings[i].sourceId \in Sources
     /\ ratings[i].sourceId = ratings[j].sourceId
     /\ ratings[i].movieId = ratings[j].movieId) => i = j

\* C7: a createRating for a (movie, sourceId) that already has a committed
\* RatingRecord is rejected with 'You have already rated this movie' and the
\* rejection inserts no record, emits no event and leaves the movie's
\* aggregates as they were.
C7_DuplicateRejected ==
  [][\A p \in Clients :
       ((\/ Calls(p, "createRating")
         \/ req[p].pc = "cr_check" /\ req'[p].pc # "cr_check")
        /\ req'[p].stars \in ValidStars
        /\ req'[p].movieId \in ExistingMovies
        /\ req'[p].sourceId \in Sources
        /\ HasRated(req'[p].movieId, req'[p].sourceId))
       => /\ req'[p].pc = "idle"
          /\ req'[p].res = AlreadyRated
          /\ ratings' = ratings
          /\ stream' = stream
          /\ movie' = movie]_vars

\* a second createRating of the same source for the same movie was rejected
C7_Witness ==
  \E p \in Clients :
    /\ req[p].op = "createRating"
    /\ req[p].pc = "idle"
    /\ req[p].res = AlreadyRated
    /\ HasRated(req[p].movieId, req[p].sourceId)

RateRejections ==
  {"Stars must be between 1 and 5", "Rating must be between 1 and 5 stars"}

C9_StarsInRange ==
  \A i \in 1..Len(ratings) :
    ratings[i].stars \in ValidStars /\ ratings[i].movieId \in ExistingMovies

\* C10: an updateRating whose caller does not present the sourceId stored on
\* the rating (a different one or none) never gets to rewrite the record.
C10_OwnershipGuard ==
  \A p \in Clients :
    (req[p].op = "updateRating" /\ req[p].pc = "publish")
      => req[p].sourceId = ratings[req[p].ratingId].sourceId


\* events of movie m in the stream, and calls on m between commit and xadd
EventsFor(m) == Cardinality({i \in 1..Len(stream) : stream[i].movieId = m})

\* C11: in createRating the insert and the rewrite of avgRating/ratingsCount
\* are one atomic transaction and the event is appended only after the
\* commit: in every state the MovieRecord agrees with the committed ratings,
\* the stream holds no more events for a movie than rating writes have been
\* committed for it, and a call whose transaction failed has inserted
\* nothing and never publishes.
C11_EventAfterCommit ==
  /\ \A m \in ExistingMovies :
       /\ movie[m] = Aggregate(ratings, m)
       /\ EventsFor(m) <= ver[m]
       /\ ver[m] = 0 => \A p \in Clients : ~(req[p].pc = "publish" /\ req[p].movieId = m)
  /\ \A p \in Clients : req[p].pc = "publish" => req[p].ratingId \in 1..Len(ratings)

\* a createRating whose transaction failed: nothing inserted, nothing emitted
C11_Witness ==
  \E p \in Clients :
    /\ req[p].op = "createRating"
    /\ req[p].pc = "idle"
    /\ req[p].res = TxError
    /\ ratings = <<>>
    /\ stream = <<>>

\* C12: when the xadd of the RatingEvent fails the submit still returns
\* successfully and the committed RatingRecord stays in the store.
C12_EmitFailureSwallowed ==
  [][\A p \in Clients :
       (req[p].pc \in {"publish", "emit"} /\ req'[p].pc # req[p].pc)
       => /\ req'[p].pc = "idle"
          /\ req'[p].res = "ok"
          /\ ratings' = ratings
          /\ req[p].ratingId \in 1..Len(ratings')]_vars

\* every call has returned successfully, a rating is committed, and no event
\* reached the stream
C12_Witness ==
  /\ \A p \in Clients : req[p].pc = "idle" /\ req[p].res \in {"ok", "none"}
  /\ \E p \in Clients : req[p].res = "ok"
  /\ Len(ratings) = 1
  /\ stream = <<>>

\* C13: a failed search-index partial update never fails its caller: the
\* pass goes on to the acknowledgment of the same message, and the
\* MovieRecord written by the pass and the ratings stay as they are.
C13_SearchFailureSwallowed ==
  [][\A c \in Consumers :
       (cons[c].pc = "search" /\ cons'[c] # cons[c])
       => /\ cons'[c].pc = "ack"
          /\ cons'[c].batch = cons[c].batch
          /\ "write" \in cons'[c].ok
          /\ movie' = movie
          /\ ratings' = ratings]_vars

\* a pass at the acknowledgment whose index update failed, its MovieRecord
\* write still in place
C13_Witness ==
  \E c \in Consumers :
    /\ cons[c].pc = "ack"
    /\ "search" \notin cons[c].ok
    /\ movie[CurMovie(c)] = [avgRating |-> cons[c].avg, ratingsCount |-> cons[c].total]
    /\ doc[CurMovie(c)] # [averageRating |-> cons[c].avg, ratingCount |-> cons[c].total]

\* C14: a failed bulk upsert of one page does not abort the bulk sync: the
\* run goes on with the next page (skip/offset advanced by the page size,
\* the loop still running or normally completed).
C14_ContinuesAfterBulkFailure ==
  [][/\ (sync.pc = "bulk" /\ nfails' # nfails /\ sync' # sync)
        => /\ sync'.skip = sync.skip + sync.batchSize
           /\ sync'.pc = "find" \/ sync'.currentOperation = "Sync completed"
     /\ (full.pc = "bulk" /\ nfails' # nfails /\ full' # full)
        => /\ full'.offset = full.offset + batchSize
           /\ full'.pc = "find"]_vars

\* C15: a bulk sync that finished without failure over an unchanged store
\* has upserted every MovieRecord into the index.
C15_CompletedSyncIndexedAll ==
  /\ sync.currentOperation = "Sync completed"
     => \A i \in DOMAIN movies : index[i].found /\ index[i].id = movies[i].id
  /\ full.res = "completed"
     => \A i \in DOMAIN movies : index[i].found /\ index[i].id = movies[i].id

\* the part of C15 that holds for performFullSync, which orders by id
FullSyncIndexedAll ==
  full.res = "completed"
  => \A i \in DOMAIN movies : index[i].found /\ index[i].id = movies[i].id

\* a thousandths value rounded to two decimals
Round2(x) == ((x + 5) \div 10) * 10

\* C16: a MovieRecord indexed by the initial bulk sync and then fetched by
\* the type-only top-rated query is in the result with the same id, the same
\* title and the same rounded average rating as the record in the store.
C16_RoundTrip ==
  [][hits' # hits =>
       \A i \in DOMAIN movies :
         (index[i] = transformMovieForOpenSearch(movies[i])
          /\ hits'.type = movies[i].type)
         => \E k \in DOMAIN hits'.movies :
              /\ hits'.movies[k].id = movies[i].id
              /\ hits'.movies[k].title = movies[i].title
              /\ Round2(hits'.movies[k].avgRating) = movies[i].avgRating]_vars

\* what the round trip does preserve: id, title and type
RoundTripIdTitle ==
  [][hits' # hits =>
       \A i \in DOMAIN movies :
         (index[i] = transformMovieForOpenSearch(movies[i])
          /\ hits'.type = movies[i].type)
         => \E k \in DOMAIN hits'.movies :
              /\ hits'.movies[k].id = movies[i].id
              /\ hits'.movies[k].title = movies[i].title
              /\ hits'.movies[k].type = movies[i].type]_vars

\* the pattern of the priority chain that matches the normalized query first
FirstPattern(n) ==
  IF Match(n, lessThanPattern).at # 0 THEN "less"
  ELSE IF Match(n, moreThanPattern).at # 0 THEN "more"
  ELSE IF Match(n, atLeastPattern).at # 0 THEN "atLeast"
  ELSE IF Match(n, atMostPattern).at # 0 THEN "atMost"
  ELSE IF Match(n, exactPattern).at # 0 THEN "exact"
  ELSE "none"

PatternOf(name) ==
  CASE name = "less" -> lessThanPattern [] name = "more" -> moreThanPattern
    [] name = "atLeast" -> atLeastPattern [] name = "atMost" -> atMostPattern
    [] name = "exact" -> exactPattern

Parsed == criteria # NoCriteria

\* C17: the rating criterion follows the priority chain less-than,
\* more-than, at-least, at-most, exact; the first pattern that matches decides
\* alone; its number R counts only if 1 <= R <= 5, otherwise no rating
\* criterion is set; "more than 3 stars" gives minRating 3.01 only, "less than
\* 3 stars" maxRating 2.99, "at least 3 stars" minRating 3, "3 stars" both 3.
C17_RatingPriority ==
  Parsed =>
    LET n == normalizeQuery(query)
        first == FirstPattern(n)
        R == parseFloat(Match(n, PatternOf(first)).arg)
        min == criteria.minRating
        max == criteria.maxRating
    IN /\ first = "none" => min = Undefined /\ max = Undefined
       /\ first # "none" /\ ~(1000 <= R /\ R <= 5000) => min = Undefined /\ max = Undefined
       /\ first # "none" /\ 1000 <= R /\ R <= 5000 =>
            /\ first = "less" => min = Undefined /\ max = R - 10
            /\ first = "more" => min = R + 10 /\ max = Undefined
            /\ first = "atLeast" => min = R /\ max = Undefined
            /\ first = "atMost" => min = Undefined /\ max = R
            /\ first = "exact" => min = R /\ max = R
       /\ query = <<"more", "than", "3", "stars">> => min = 3010 /\ max = Undefined
       /\ query = <<"less", "than", "3", "stars">> => min = Undefined /\ max = 2990
       /\ query = <<"at", "least", "3", "stars">> => min = 3000 /\ max = Undefined
       /\ query = <<"3", "stars">> => min = 3000 /\ max = 3000

\* "3 stars less than 3 stars" parsed: the less-than pattern wins over the
\* exact one
C17_Witness ==
  /\ query = <<"3", "stars", "less", "than", "3", "stars">>
  /\ criteria.maxRating = 2990
  /\ criteria.minRating = Undefined

\* the documents a compiled query is evaluated on
SampleDocs == {transformedMovies(MovieRow(i, pr)) : i \in 1..2, pr \in Profiles}

HasTerm(body) == \E c \in SeqToSet(body.must) : c.kind = "term"

\* C18: a query compiled from criteria with no filter and no text, without a
\* type, matches every document and sorts by rating.
C18_EmptyCriteriaMatchAll ==
  (searchBody # NoBody /\ criteria = NoCriteria /\ ~HasTerm(searchBody))
  => /\ \A d \in SampleDocs : Matches(d, searchBody)
     /\ "averageRating" \in SeqToSet(searchBody.sort)

\* a request that the handler has answered
Handled == http.pc = "idle" /\ http.status \notin {0, 401}

\* the limit parses into 1..50 and the page is within the endpoint's bounds
LimitInBounds == parseInt(OrDefault(http.limit, "10")) \in 1..50
PageInBounds ==
  IF http.route = "search" THEN parseInt(OrDefault(http.page, "1")) >= 1
  ELSE parseInt(OrDefault(http.page, "0")) >= 0

\* C19: on GET /movies/search and GET /movies/top a request whose limit does
\* not parse into 1..50 or whose page is out of bounds or not a number is
\* answered 400 and never reaches the search gateway.
C19_PaginationBounds ==
  (Handled /\ ~(LimitInBounds /\ PageInBounds))
  => http.status = 400 /\ ~http.gateway

\* what the search endpoint does enforce: limit = 100 is answered 400
SearchRejectsLimit100 ==
  (Handled /\ http.route = "search" /\ http.limit = "100")
  => http.status = 400 /\ ~http.gateway

\* C20: a request whose X-API-Key header is absent or differs from the
\* shared secret never reaches a handler and is answered 401, whatever the
\* configuration.
C20_ApiKeyRequired ==
  (http.pc # "guard" /\ http.route # ""
   /\ (http.apiKey = NoKey \/ http.apiKey # config))
  => http.pc = "idle" /\ http.status = 401

\* what the guard does enforce: no header, no handler
AbsentKeyRejected ==
  (http.pc # "guard" /\ http.route # "" /\ http.apiKey = NoKey)
  => http.pc = "idle" /\ http.status = 401

\* a returned call whose store write threw
StoreWriteFailed(r) == r.pc = "idle" /\ r.res \in {TxError, RatingFailed}

\* C21: a rating submit whose record-store write fails is answered with
\* status 500, never with the 400 of a validation error.
C21_StoreFailureIs500 ==
  \A p \in Clients : StoreWriteFailed(req[p]) => Status(req[p].res) = 500

\* the part of C21 that holds: a failed transaction of createRating or
\* updateRating (POST /ratings, PUT /ratings/:id) is answered with 500
RatingsStoreFailureIs500 ==
  \A p \in Clients :
    StoreWriteFailed(req[p]) /\ req[p].op # "rateMovie" => Status(req[p].res) = 500

\* C22: events for the same movie in one poll batch are coalesced: after the
\* recomputation pass of a message has completed, processEvents does not start
\* another pass for the same movie within the same batch.
C22_OnePassPerMovieAndBatch ==
  [][\A c \in Consumers :
       cons[c].pc = "ack" /\ cons'[c].pc = "del"
         => stream'[Head(cons'[c].batch)].movieId # CurMovie(c)]_vars

\* a recalculateMovieStats called by the polling loop of c has not returned
LoopPass(c) == cons[c].pc \in {"del", "agg", "find", "setex", "write", "search"}

\* C23: within one consumer instance at most one recalculateMovieStats pass
\* is in flight at any time, whatever manualRecalculation calls are made, and
\* no poll is issued while a batch is being processed.
C23_OnePassInFlight ==
  \A c \in Consumers :
    /\ ~(LoopPass(c) /\ manual[c].pc # "idle")
    /\ cons[c].pc = "poll" => cons[c].batch = <<>>

\* the part of C23 that holds: the loop polls only when its batch is done
NoPollWhileProcessing ==
  [][\A c \in Consumers :
       cons[c].batch # <<>> /\ cons'[c].batch # cons[c].batch
         => cons'[c].batch = Tail(cons[c].batch)]_vars

\* the latest recomputation pass of m has returned and read the ratings as
\* they are now
PassFinished(m) ==
  /\ lastPass[m].ver = ver[m]
  /\ \A c \in Consumers :
       cons[c].pc \in {"poll", "ack"} \/ CurMovie(c) # m \/ cons[c].ver # ver[m]

\* C24: once the consumer has finished recalculateMovieStats for a movie and
\* no rating has been written since that pass read the ratings, a cached stats
\* entry of the movie equals the aggregate of its current ratings, whatever
\* getMovieRatingStats readers do.
C24_NoStaleCache ==
  \A m \in ExistingMovies :
    PassFinished(m) /\ cache[m] # NoStats => cache[m] = StatsOf(ratings, m)

\* C25: MovieRecord.avgRating and ratingsCount are written only by the
\* recalculation consumer: no step of createRating, createAnonymousRating or
\* updateRating changes them.
C25_IngestLeavesMovieRecord == [][movie' = movie]_vars

\* the part of C25 that holds: createAnonymousRating inserts the rating and
\* leaves the MovieRecord as it is
AnonymousLeavesMovieRecord ==
  [][\A p \in Clients :
       req'[p] # req[p] /\ req'[p].op = "rateMovie" => movie' = movie]_vars

\* documents released in the years around the bound of "before 2000"
YearDocs == {[d EXCEPT !.releaseYear = y] : d \in SampleDocs, y \in {1999, 2000, 2001}}

\* C26: "before Y" is parsed into beforeYear = Y and compiled into an
\* exclusive upper bound at year Y: the release-date filter holds for exactly
\* the documents released before Y.
C26_BeforeYearExclusive ==
  /\ parseQuery(<<"before", "2000">>).beforeYear = 2000
  /\ (searchBody # NoBody /\ criteria.beforeYear # Undefined
       /\ criteria.olderThanYears = Undefined)
     => \A k \in DOMAIN searchBody.must :
          LET c == searchBody.must[k]
          IN c.kind = "range" /\ c.op = "lt"
               => \A d \in YearDocs : Holds(d, c) <=> d.releaseYear < criteria.beforeYear

\* the part of C26 that holds: the parser yields the year as written
BeforeYearParsed ==
  (query = <<"before", "2000">> /\ criteria # NoCriteria)
  => criteria.beforeYear = 2000 /\ criteria.textQuery = <<>>

\* the word positions of the span that pattern P matches in n
Span(n, P) ==
  LET m == Match(n, P)
  IN IF m.at = 0 THEN {} ELSE m.at..(m.at + m.len - 1)

\* the word positions of the phrases parseQuery sets a criterion from
MatchedSpans(n) ==
  LET first == FirstPattern(n)
      R == parseFloat(Match(n, PatternOf(first)).arg)
  IN Span(n, afterPattern) \cup Span(n, beforePattern)
       \cup Span(n, olderPattern) \cup Span(n, newerPattern)
       \cup (IF first # "none" /\ 1000 <= R /\ R <= 5000
             THEN Span(n, PatternOf(first)) ELSE {})

\* the words of q outside the matched spans
Unmatched(q) ==
  LET keep == SelectSeq([i \in 1..Len(q) |-> i],
                        LAMBDA i : i \notin MatchedSpans(normalizeQuery(q)))
  IN [k \in 1..Len(keep) |-> q[keep[k]]]

\* C27: every phrase parseQuery sets a criterion from is removed from the
\* text before free-text extraction, also when the phrase matches only after
\* misspelling normalization: textQuery, when set, is the query without the
\* matched spans.
C27_MatchedSpanRemoved ==
  Parsed /\ criteria.textQuery # <<>> => criteria.textQuery = Unmatched(query)

\* the part of C27 that holds: the spans of a query without misspellings
\* are removed
WellSpeltSpanRemoved ==
  Parsed /\ criteria.textQuery # <<>> /\ query = normalizeQuery(query)
    => criteria.textQuery = Unmatched(query)

\* delivered messages that no consumer holds and that were not acknowledged
Abandoned ==
  {i \in DOMAIN stream :
     /\ stream[i].st = "pending"
     /\ \A c \in Consumers : \A k \in DOMAIN cons[c].batch : cons[c].batch[k] # i}

\* C28: a failure on one message does not stall its batch: when a consumer
\* is done with a message it goes on with the rest of the batch; the message
\* is acknowledged unless a call threw on it, and then it alone stays
\* unacknowledged; a message without a data field is acknowledged without
\* any recomputation; so every unacknowledged message that no consumer holds
\* stands for a failure of its own.
C28_FailureDoesNotStallBatch ==
  /\ [](Cardinality(Abandoned) <= nfails)
  /\ [][\A c \in Consumers :
          cons[c].batch # <<>> /\ cons'[c].batch # cons[c].batch =>
            LET i == Head(cons[c].batch)
            IN /\ cons'[c].batch = Tail(cons[c].batch)
               /\ cons'[c].pc = IF Tail(cons[c].batch) = <<>> THEN "poll" ELSE "del"
               /\ \A j \in DOMAIN stream : j # i => stream'[j] = stream[j]
               /\ IF nfails' = nfails
                  THEN stream'[i].st = "acked"
                  ELSE stream'[i] = stream[i]
               /\ stream[i].movieId = 0 /\ nfails' = nfails
                    => cache' = cache /\ movie' = movie /\ doc' = doc
                       /\ cons[c].pc = "del"]_vars

\* a batch of three was read: the call on the first message threw and it
\* stays pending, the second was recomputed and acknowledged, the third, an
\* entry without data, was acknowledged as well
C28_Witness ==
  /\ Len(stream) = 3
  /\ stream[1].st = "pending" /\ stream[1].movieId # 0
  /\ stream[2].st = "acked" /\ stream[2].movieId # 0
  /\ stream[3].st = "acked" /\ stream[3].movieId = 0
  /\ Abandoned = {1}
  /\ nfails = 1

\* C29: at most one performSync is in progress at any time: a startSync
\* issued while isRunning is true is rejected (400, 'Sync is already running')
\* and leaves the status of the running sync unchanged; a run in progress is
\* never replaced by a new one; isRunning is true from the accepted startSync
\* until the run has finished or failed, and false otherwise.
C29_SingleSync ==
  /\ [](sync.isRunning <=> sync.pc # "idle")
  /\ [][/\ sync.isRunning /\ http' # http => sync' = sync /\ http'.status = 400
        /\ sync.pc # "idle" /\ sync' # sync => nsyncs' = nsyncs]_vars

\* a start was rejected while a sync that has processed a page is running
C29_Witness ==
  /\ sync.isRunning
  /\ sync.processedRecords > 0
  /\ http.route = "sync/start"
  /\ http.status = 400

\* C30: in every state of a bulk sync the status snapshot satisfies
\* processedRecords <= totalRecords and 0 <= progress <= 100.
C30_StatusInBounds ==
  /\ sync.processedRecords <= sync.totalRecords
  /\ 0 <= sync.progress /\ sync.progress <= 100

\* the part of C30 that holds: the bounds are kept when batchSize divides the
\* number of records
StatusInBoundsWhenDivisible ==
  (sync.batchSize > 0 /\ sync.totalRecords % sync.batchSize = 0)
  => /\ sync.processedRecords <= sync.totalRecords
     /\ 0 <= sync.progress /\ sync.progress <= 100

====
